---- MODULE Spec2Model ----
(***************************************************************************)
(* Vanity address pool of pump-fun-launcher (src/src/vanity_address.rs):   *)
(* the background supervisor thread, the start/stop lifecycle, the FIFO    *)
(* pool and the consumer-facing queries.                                   *)
(***************************************************************************)
EXTENDS Integers, Sequences, FiniteSets, TLC

(* ------------------------------ bounds --------------------------------- *)

\* largest value of TARGET_VANITY_COUNT explored (the source fixes it at 10)
MaxTarget == 2
\* total number of entries the supervisors may push in one behaviour
MaxPushed == 2
\* total number of lifecycle calls (start / stop / init) begun in one behaviour
MaxCalls == 3

\* num_threads: the rayon workers that run the iterations of one batch
NumWorkers == 2
\* iterations of one batch (the source runs 100_000 per batch)
BatchSize == 2
\* candidates one supervisor may generate over all its rounds
MaxAttempts == 4

Callers == {1, 2}
\* the VanityAddressPool objects: pool c is the one init_global_vanity_pool
\* constructs when caller c runs it
Pools == Callers
\* the receiver of the method calls made on a pool directly
self == 1
Consumers == {1, 2}
Threads == 1..MaxCalls
Workers == 1..NumWorkers

\* Option<T>: None is the empty sequence, Some(x) the one-element sequence
None == <<>>
Some(x) == <<x>>

(* --------------------------- keypairs, addresses ------------------------ *)

\* VANITY_SUFFIX = "pump"
VANITY_SUFFIX == <<"p", "u", "m", "p">>

\* The candidate keypairs Keypair::new() may return, each given by the text
\* of its public key (keypair.pubkey().to_string()).
KeypairTable ==
  << <<"p", "u", "m", "p">>,
     <<"x", "p", "u", "m", "p">>,
     <<"p", "u", "m", "p", "x">>,
     <<"u", "m", "p">> >>

Keypair == 1..Len(KeypairTable)

pubkey_to_string(kp) == KeypairTable[kp]

starts_with(s, prefix) ==
  /\ Len(s) >= Len(prefix)
  /\ SubSeq(s, 1, Len(prefix)) = prefix

\* str::ends_with
ends_with(s, suffix) ==
  /\ Len(s) >= Len(suffix)
  /\ SubSeq(s, Len(s) - Len(suffix) + 1, Len(s)) = suffix

(* ------------------------------- state ---------------------------------- *)

VARIABLES
  TARGET_VANITY_COUNT,   \* the target count N the supervisor compares against
  VANITY_ENABLED,        \* the environment variable: Some(text) or None (unset)
  GLOBAL_VANITY_POOL,    \* the OnceLock: None or Some(pool)
  \* the fields of each VanityAddressPool
  generated_addresses,   \* VecDeque<GeneratedVanityAddress>
  generated_addresses_lock, \* holder of the generated_addresses mutex (a
                         \* supervisor thread), 0 when free
  is_generating,         \* AtomicBool
  generation_thread,     \* Option<JoinHandle>: None or Some(thread id)
  generation_thread_lock,\* holder of the generation_thread mutex, 0 when free
  sup,                   \* the supervisor threads: position and locals
  search,                \* the search a supervisor is in: found, attempts,
                         \* result, and its workers
  spawned,               \* number of supervisor threads spawned so far
  call,                  \* the lifecycle callers: position and locals
  ret,                   \* the last value returned to a consumer
  scen,                  \* the scripted consumer: position and the values it saw
  status,                \* the status call in progress (get_vanity_status or
                         \* get_global_vanity_status) and the values it read
  creation,              \* the token-creation flow (handle_token_creation
                         \* and create_token): position and locals
  handed,                \* history: entries returned by acquire, in order
  pushed,                \* history: number of entries pushed so far
  hist,                  \* history: lifecycle calls, in the order they returned
  begun,                 \* history: number of lifecycle calls begun
  quiet,                 \* history: a stop returned while no start was in
                         \* progress, and no start has begun since
  cleared                \* history: the last stop that stored false to
                         \* is_generating with no store of true since: its
                         \* caller, the pushes made before it, has it returned

poolVars == <<generated_addresses, generated_addresses_lock, pushed>>
lifeVars == <<is_generating, generation_thread, generation_thread_lock>>
callVars == <<call, hist, begun, quiet, cleared>>
flowVars == <<scen, status, creation>>
consVars == <<ret, scen, status, creation>>
supVars == <<sup, search>>
confVars == <<TARGET_VANITY_COUNT, VANITY_ENABLED, GLOBAL_VANITY_POOL>>

vars == <<TARGET_VANITY_COUNT, VANITY_ENABLED, GLOBAL_VANITY_POOL,
          generated_addresses, generated_addresses_lock, is_generating,
          generation_thread,
          generation_thread_lock, sup, search, spawned, call, ret, scen,
          status, creation,
          handed,
          pushed, hist, begun, quiet, cleared>>

(* ------------------------------ the pool -------------------------------- *)

\* VecDeque::push_back
push_back(q, e) == Append(q, e)

pop_back(q) ==
  IF q = <<>> THEN [result |-> None, rest |-> q]
  ELSE [result |-> Some(q[Len(q)]), rest |-> SubSeq(q, 1, Len(q) - 1)]

peek_front(q) ==
  IF q = <<>> THEN [result |-> None, rest |-> q]
  ELSE [result |-> Some(Head(q)), rest |-> q]

\* VecDeque::pop_front: the oldest entry, or None on an empty queue
pop_front(q) ==
  IF q = <<>> THEN [result |-> None, rest |-> q]
  ELSE [result |-> Some(Head(q)), rest |-> Tail(q)]

(* --------------------------- configuration ------------------------------ *)

EnvValues == { None, Some(<<"t", "r", "u", "e">>), Some(<<"T", "R", "U", "E">>),
               Some(<<"f", "a", "l", "s", "e">>), Some(<<"1">>) }

to_lowercase_char(ch) ==
  CASE ch = "T" -> "t" [] ch = "R" -> "r" [] ch = "U" -> "u"
    [] ch = "E" -> "e" [] OTHER -> ch

\* str::to_lowercase
to_lowercase(s) == [i \in DOMAIN s |-> to_lowercase_char(s[i])]

\* VanityConfig::from_env().enabled
from_env_enabled(v) ==
  LET env_value == IF v = None THEN <<"t", "r", "u", "e">> ELSE v[1]
  IN  to_lowercase(env_value) = <<"t", "r", "u", "e">>

\* the process environment that std::env::var reads at line 303: the
\* variable is set to another value, or removed, while the program runs
set_var(v) ==
  /\ v # VANITY_ENABLED
  /\ VANITY_ENABLED' = v
  /\ UNCHANGED <<TARGET_VANITY_COUNT, GLOBAL_VANITY_POOL, poolVars, lifeVars,
                 supVars, spawned, callVars, consVars, handed>>

(* ------------------------------- Init ----------------------------------- *)

SupInit == [pc |-> "unborn", pool |-> self, current_count |-> 0,
            result |-> None, attempts |-> 0, total_attempts |-> 0]

WorkerInit == [pc |-> "idle", keypair |-> None]

\* (first, generated and batches are history: the match of the worker that
\* first stored true to found, the number of candidates generated, the
\* number of batches begun)
SearchInit == [pc |-> "none", found |-> FALSE, attempts |-> 0,
               result |-> None, left |-> 0, first |-> None,
               generated |-> 0, batches |-> 0,
               w |-> [x \in Workers |-> WorkerInit]]

CallInit == [pc |-> "idle", op |-> "none", pool |-> self, handle |-> None]

ClearedInit == [by |-> 0, at |-> 0, returned |-> FALSE]

RetInit == [op |-> "none", flag |-> FALSE, count |-> 0, got |-> None]

StatusInit == [pc |-> "idle", op |-> "none", has_generated |-> FALSE,
               generated_count |-> 0, is_generating |-> FALSE]

\* (waited, len_before and len_after are history: the flow entered its wait
\* loop; the pool length just before create_token acquired and at its return)
CreationInit == [pc |-> "idle", is_vanity_enabled |-> FALSE,
                 generated_vanity |-> None, mint_keypair |-> None,
                 outcome |-> "none", waited |-> FALSE,
                 len_before |-> 0, len_after |-> 0]

ScenInit == [pc |-> "poll", has_any |-> FALSE, first |-> None,
             second |-> None, is_running |-> FALSE, exited |-> FALSE]

InitState ==
  /\ GLOBAL_VANITY_POOL = None
  /\ generated_addresses = [p \in Pools |-> <<>>]
  /\ generated_addresses_lock = [p \in Pools |-> 0]
  /\ is_generating = [p \in Pools |-> FALSE]
  /\ generation_thread = [p \in Pools |-> None]
  /\ generation_thread_lock = [p \in Pools |-> 0]
  /\ sup = [t \in Threads |-> SupInit]
  /\ search = [t \in Threads |-> SearchInit]
  /\ spawned = 0
  /\ call = [c \in Callers |-> CallInit]
  /\ ret = RetInit
  /\ scen = ScenInit
  /\ status = StatusInit
  /\ creation = CreationInit
  /\ handed = <<>>
  /\ pushed = 0
  /\ hist = <<>>
  /\ begun = 0
  /\ quiet = FALSE
  /\ cleared = ClearedInit

Init ==
  /\ TARGET_VANITY_COUNT \in 0..MaxTarget
  /\ VANITY_ENABLED = None
  /\ InitState

(* ------------------- lifecycle calls: start, stop ----------------------- *)

StartInProgress(c) == call[c].pc # "idle" /\ call[c].op \in {"start", "init"}

\* a lifecycle call of caller c returns: the caller is idle again
Return(c, op, res) ==
  /\ call' = [call EXCEPT ![c] = CallInit]
  /\ hist' = Append(hist, [op |-> op, res |-> res])
  /\ quiet' = IF op = "stop"
              THEN ~ \E d \in Callers \ {c} : StartInProgress(d)
              ELSE quiet
  /\ cleared' = IF op = "stop" /\ cleared.by = c
                THEN [cleared EXCEPT !.returned = TRUE]
                ELSE cleared

Goto(c, op, pc) ==
  /\ call' = [call EXCEPT ![c].pc = pc, ![c].op = op]
  /\ hist' = hist

\* start_background_generation is entered by a caller's own call, or from
\* init_global_vanity_pool (line 327)
StartEntered(c) ==
  \/ call[c].pc = "idle" /\ begun < MaxCalls /\ begun' = begun + 1
  \/ call[c].pc = "init_start" /\ begun' = begun

StartOp(c) == IF call[c].pc = "init_start" THEN "init" ELSE "start"

\* start_background_generation returns Ok(()): to its caller, or into
\* init_global_vanity_pool at line 332
StartReturn(c, op) ==
  IF op = "init"
  THEN Goto(c, "init", "init_set") /\ UNCHANGED <<quiet, cleared>>
  ELSE Return(c, "start", "Ok")

start_check_always(c) ==
  /\ StartEntered(c)
  /\ Goto(c, StartOp(c), "start_store") /\ quiet' = FALSE
  /\ cleared' = cleared
  /\ UNCHANGED <<confVars, poolVars, lifeVars, supVars, spawned, consVars, handed>>

\* start_background_generation, lines 103-106: the test of is_generating
start_check(c) ==
  /\ StartEntered(c)
  /\ IF is_generating[call[c].pool]
     THEN StartReturn(c, StartOp(c))
     ELSE /\ Goto(c, StartOp(c), "start_store")
          /\ quiet' = FALSE
          /\ cleared' = cleared
  /\ UNCHANGED <<confVars, poolVars, lifeVars, supVars, spawned, consVars, handed>>

\* line 112: is_generating.store(true)
start_store(c) ==
  /\ call[c].pc = "start_store"
  /\ is_generating' = [is_generating EXCEPT ![call[c].pool] = TRUE]
  /\ Goto(c, call[c].op, "start_spawn")
  /\ cleared' = ClearedInit
  /\ UNCHANGED <<confVars, poolVars, generation_thread,
                 generation_thread_lock, supVars, spawned, consVars, handed,
                 begun, quiet>>

start_spawn_empty_pool(c) ==
  /\ call[c].pc = "start_spawn"
  /\ spawned' = spawned + 1
  /\ sup' = [sup EXCEPT ![spawned + 1].pc = "while",
                        ![spawned + 1].pool = call[c].pool]
  /\ call' = [call EXCEPT ![c].pc = "start_handle",
                          ![c].handle = Some(spawned + 1)]
  /\ generated_addresses' =
       [generated_addresses EXCEPT ![call[c].pool] = <<>>]
  /\ UNCHANGED <<search, confVars, generated_addresses_lock, pushed, lifeVars, consVars, handed,
                 hist, begun, quiet, cleared>>

\* line 114: thread::spawn; the new thread starts at the head of its loop
start_spawn(c) ==
  /\ call[c].pc = "start_spawn"
  /\ spawned' = spawned + 1
  /\ sup' = [sup EXCEPT ![spawned + 1].pc = "while",
                        ![spawned + 1].pool = call[c].pool]
  /\ call' = [call EXCEPT ![c].pc = "start_handle",
                          ![c].handle = Some(spawned + 1)]
  /\ UNCHANGED <<search, confVars, poolVars, lifeVars, consVars, handed,
                 hist, begun, quiet, cleared>>

start_no_handle(c) ==
  /\ call[c].pc = "start_handle"
  /\ generation_thread_lock[call[c].pool] = 0
  /\ StartReturn(c, call[c].op)
  /\ UNCHANGED <<confVars, poolVars, lifeVars, supVars, spawned, consVars,
                 handed, begun>>

\* lines 189-195: the handle is stored under the generation_thread lock
start_handle(c) ==
  /\ call[c].pc = "start_handle"
  /\ generation_thread_lock[call[c].pool] = 0
  /\ generation_thread' =
       [generation_thread EXCEPT ![call[c].pool] = call[c].handle]
  /\ StartReturn(c, call[c].op)
  /\ UNCHANGED <<confVars, poolVars, is_generating, generation_thread_lock,
                 supVars, spawned, consVars, handed, begun>>

\* stop_background_generation, lines 200-203: the test of is_generating
stop_check(c) ==
  /\ call[c].pc = "idle"
  /\ begun < MaxCalls
  /\ begun' = begun + 1
  /\ IF ~ is_generating[call[c].pool]
     THEN Return(c, "stop", "unit")
     ELSE Goto(c, "stop", "stop_store") /\ UNCHANGED <<quiet, cleared>>
  /\ UNCHANGED <<confVars, poolVars, lifeVars, supVars, spawned, consVars, handed>>

\* line 205: is_generating.store(false)
stop_store(c) ==
  /\ call[c].pc = "stop_store"
  /\ is_generating' = [is_generating EXCEPT ![call[c].pool] = FALSE]
  /\ Goto(c, "stop", "stop_take")
  /\ cleared' = [by |-> c, at |-> pushed, returned |-> FALSE]
  /\ UNCHANGED <<confVars, poolVars, generation_thread,
                 generation_thread_lock, supVars, spawned, consVars, handed,
                 begun, quiet>>

\* line 208: generation_thread.lock().unwrap().take(); the guard of the lock
\* lives until the end of the if-let, so it is held across the join
stop_take(c) ==
  /\ call[c].pc = "stop_take"
  /\ generation_thread_lock[call[c].pool] = 0
  /\ generation_thread' = [generation_thread EXCEPT ![call[c].pool] = None]
  /\ IF generation_thread[call[c].pool] = None
     THEN /\ Return(c, "stop", "unit")
          /\ UNCHANGED generation_thread_lock
     ELSE /\ call' = [call EXCEPT
                        ![c].pc = "stop_join",
                        ![c].handle = generation_thread[call[c].pool]]
          /\ generation_thread_lock' =
               [generation_thread_lock EXCEPT ![call[c].pool] = c]
          /\ UNCHANGED <<hist, quiet, cleared>>
  /\ UNCHANGED <<confVars, poolVars, is_generating, supVars, spawned, consVars,
                 handed, begun>>

stop_no_join(c) ==
  /\ call[c].pc = "stop_join"
  /\ generation_thread_lock' =
       [generation_thread_lock EXCEPT ![call[c].pool] = 0]
  /\ Return(c, "stop", "unit")
  /\ UNCHANGED <<confVars, poolVars, is_generating, generation_thread, supVars,
                 spawned, consVars, handed, begun>>

\* line 209: handle.join() returns once the supervisor thread has ended
stop_join(c) ==
  /\ call[c].pc = "stop_join"
  /\ sup[call[c].handle[1]].pc = "dead"
  /\ generation_thread_lock' =
       [generation_thread_lock EXCEPT ![call[c].pool] = 0]
  /\ Return(c, "stop", "unit")
  /\ UNCHANGED <<confVars, poolVars, is_generating, generation_thread, supVars,
                 spawned, consVars, handed, begun>>

(* ------------------------ the global pool ------------------------------- *)

\* init_global_vanity_pool, lines 318-324: return if the OnceLock is set,
\* otherwise construct the pool (VanityAddressPool::new) and start it
init_check(c) ==
  /\ call[c].pc = "idle"
  /\ begun < MaxCalls
  /\ begun' = begun + 1
  /\ IF GLOBAL_VANITY_POOL # None
     THEN Return(c, "init", "Ok")
     ELSE /\ call' = [call EXCEPT ![c].pc = "init_start", ![c].op = "init",
                                  ![c].pool = c]
          /\ UNCHANGED <<hist, quiet, cleared>>
  /\ UNCHANGED <<confVars, poolVars, lifeVars, supVars, spawned, consVars, handed>>

\* lines 332-336: GLOBAL_VANITY_POOL.set(pool)
init_set(c) ==
  /\ call[c].pc = "init_set"
  /\ IF GLOBAL_VANITY_POOL = None
     THEN /\ GLOBAL_VANITY_POOL' = Some(call[c].pool)
          /\ Return(c, "init", "Ok")
     ELSE /\ UNCHANGED GLOBAL_VANITY_POOL
          /\ Return(c, "init", "Err")
  /\ UNCHANGED <<TARGET_VANITY_COUNT, VANITY_ENABLED, poolVars, lifeVars,
                 supVars, spawned, consVars, handed, begun>>

\* get_global_vanity_pool, lines 340-342: GLOBAL_VANITY_POOL.get().cloned()
get_global_vanity_pool(c) ==
  /\ ret' = [RetInit EXCEPT !.op = "global", !.got = GLOBAL_VANITY_POOL]
  /\ UNCHANGED <<confVars, poolVars, lifeVars, supVars, spawned, callVars,
                 handed, flowVars>>

(* --------------------------- the supervisor ----------------------------- *)

Alive(t) == sup[t].pc \notin {"unborn", "dead", "panicked"}

LiveSupervisors == {t \in Threads : Alive(t)}

\* what find_vanity_address_with_suffix can return: a keypair whose address
\* ends with the suffix
SearchResults ==
  {kp \in Keypair : ends_with(pubkey_to_string(kp), VANITY_SUFFIX)}

target_reached_gt(current_count) == current_count > TARGET_VANITY_COUNT

\* line 138: current_count >= TARGET_VANITY_COUNT
target_reached(current_count) == current_count >= TARGET_VANITY_COUNT

\* line 163: format!("vanity_{}", current_count), the text being kept as
\* its prefix and the number it prints
format_seed(current_count) == <<"vanity_", current_count>>

\* lines 161-165: the entry built from a search result (id is history: the
\* position of the entry in the order of pushes, 0 when not recorded)
GeneratedVanityAddress(kp, current_count, n) ==
  [keypair |-> kp, seed |-> format_seed(current_count),
   address |-> pubkey_to_string(kp), id |-> n]

\* line 132: while is_generating.load()
sup_while(t) ==
  /\ sup[t].pc = "while"
  /\ sup' = [sup EXCEPT ![t].pc = IF is_generating[sup[t].pool]
                                   THEN "len" ELSE "exit"]
  /\ UNCHANGED <<search, confVars, poolVars, lifeVars, spawned, callVars, consVars,
                 handed>>

sup_len_hold_lock(t) ==
  /\ sup[t].pc = "len"
  /\ generated_addresses_lock[sup[t].pool] = 0
  /\ LET current_count == Len(generated_addresses[sup[t].pool])
     IN  sup' = [sup EXCEPT
                   ![t].current_count = current_count,
                   ![t].pc = IF target_reached(current_count)
                             THEN "break" ELSE "search"]
  /\ generated_addresses_lock' =
       [generated_addresses_lock EXCEPT ![sup[t].pool] = t]
  /\ UNCHANGED <<search, confVars, generated_addresses, pushed, lifeVars,
                 spawned, callVars, consVars, handed>>

\* lines 133-141: read the pool length under the pool lock, which is released
\* at the end of the block (line 136), and compare with the target
sup_len(t) ==
  /\ sup[t].pc = "len"
  /\ generated_addresses_lock[sup[t].pool] = 0
  /\ LET current_count == Len(generated_addresses[sup[t].pool])
     IN  sup' = [sup EXCEPT
                   ![t].current_count = current_count,
                   ![t].pc = IF target_reached(current_count)
                             THEN "break" ELSE "search"]
  /\ UNCHANGED <<search, confVars, poolVars, lifeVars, spawned, callVars, consVars,
                 handed>>

\* line 153: one search round taken as one step: the round touches nothing but
\* its own locals and returns one of SearchResults (the attempt counters are
\* followed where the round is run worker by worker, in find_return)
sup_round(t) ==
  /\ sup[t].pc = "search"
  /\ \E kp \in SearchResults :
       sup' = [sup EXCEPT ![t].result = Some(kp), ![t].pc = "push"]
  /\ UNCHANGED <<search, confVars, poolVars, lifeVars, spawned, callVars, consVars,
                 handed>>

(* ------------------- the search, worker by worker ----------------------- *)

frameSearch == <<confVars, poolVars, lifeVars, spawned, callVars, consVars,
                 handed>>

\* lines 250-257: the supervisor enters find_vanity_address_with_suffix
find_begin(t) ==
  /\ sup[t].pc = "search"
  /\ sup' = [sup EXCEPT ![t].pc = "searching"]
  /\ search' = [search EXCEPT ![t] = [SearchInit EXCEPT !.pc = "while"]]
  /\ UNCHANGED frameSearch

\* line 259: while !found.load(); a new batch of BatchSize iterations
find_while(t) ==
  /\ search[t].pc = "while"
  /\ search' = [search EXCEPT
                  ![t].pc = IF search[t].found THEN "take" ELSE "batch",
                  ![t].batches = IF search[t].found THEN @ ELSE @ + 1,
                  ![t].left = IF search[t].found THEN 0 ELSE BatchSize]
  /\ UNCHANGED <<sup, frameSearch>>

iter_check_blind(t, x) ==
  /\ search[t].pc = "batch"
  /\ search[t].left > 0
  /\ search[t].w[x].pc = "idle"
  /\ search' = [search EXCEPT ![t].left = @ - 1, ![t].w[x].pc = "gen"]
  /\ UNCHANGED <<sup, frameSearch>>

\* lines 262-264: a worker takes the next iteration and tests the found flag
iter_check(t, x) ==
  /\ search[t].pc = "batch"
  /\ search[t].left > 0
  /\ search[t].w[x].pc = "idle"
  /\ search' = [search EXCEPT
                  ![t].left = @ - 1,
                  ![t].w[x].pc = IF search[t].found THEN "idle" ELSE "gen"]
  /\ UNCHANGED <<sup, frameSearch>>

iter_gen_lost_update(t, x) ==
  /\ search[t].w[x].pc = "gen"
  /\ sup[t].total_attempts + search[t].attempts < MaxAttempts
  /\ \E kp \in Keypair :
       search' = [search EXCEPT
                    ![t].attempts = IF \E y \in Workers \ {x} :
                                         search[t].w[y].pc = "gen"
                                    THEN @ ELSE @ + 1,
                    ![t].generated = @ + 1,
                    ![t].w[x] =
                      IF ends_with(pubkey_to_string(kp), VANITY_SUFFIX)
                      THEN [pc |-> "found", keypair |-> Some(kp)]
                      ELSE WorkerInit]
  /\ UNCHANGED <<sup, frameSearch>>

\* lines 265-268: Keypair::new(), attempts.fetch_add(1), the suffix test
iter_gen(t, x) ==
  /\ search[t].w[x].pc = "gen"
  /\ sup[t].total_attempts + search[t].attempts < MaxAttempts
  /\ \E kp \in Keypair :
       search' = [search EXCEPT
                    ![t].attempts = @ + 1,
                    ![t].generated = @ + 1,
                    ![t].w[x] =
                      IF ends_with(pubkey_to_string(kp), VANITY_SUFFIX)
                      THEN [pc |-> "found", keypair |-> Some(kp)]
                      ELSE WorkerInit]
  /\ UNCHANGED <<sup, frameSearch>>

\* line 269: found.store(true)
iter_found(t, x) ==
  /\ search[t].w[x].pc = "found"
  /\ search' = [search EXCEPT
                  ![t].found = TRUE,
                  ![t].first = IF search[t].found
                               THEN @ ELSE search[t].w[x].keypair,
                  ![t].w[x].pc = "result"]
  /\ UNCHANGED <<sup, frameSearch>>

\* lines 270-271: the keypair is written to the result slot under its lock
iter_result(t, x) ==
  /\ search[t].w[x].pc = "result"
  /\ search' = [search EXCEPT ![t].result = search[t].w[x].keypair,
                              ![t].w[x] = WorkerInit]
  /\ UNCHANGED <<sup, frameSearch>>

batch_end_no_join(t) ==
  /\ search[t].pc = "batch"
  /\ search[t].left = 0
  /\ search' = [search EXCEPT ![t].pc = "while"]
  /\ UNCHANGED <<sup, frameSearch>>

\* line 273: for_each returns when every iteration of the batch is over
batch_end(t) ==
  /\ search[t].pc = "batch"
  /\ search[t].left = 0
  /\ \A x \in Workers : search[t].w[x].pc = "idle"
  /\ search' = [search EXCEPT ![t].pc = "while"]
  /\ UNCHANGED <<sup, frameSearch>>

\* lines 286-291 and 153-154: result.take().expect(..) panics on None and
\* ends the thread; otherwise the search returns Ok and the supervisor adds
\* the attempts to its total
find_return(t) ==
  /\ search[t].pc = "take"
  /\ IF search[t].result = None
     THEN sup' = [sup EXCEPT ![t].pc = "panicked"]
     ELSE sup' = [sup EXCEPT
                    ![t].result = search[t].result,
                    ![t].attempts = search[t].attempts,
                    ![t].total_attempts = @ + search[t].attempts,
                    ![t].pc = "push"]
  /\ search' = [search EXCEPT ![t] = SearchInit]
  /\ UNCHANGED frameSearch

\* lines 155-174: build the entry and push it under the pool lock
sup_push(t) ==
  /\ sup[t].pc = "push"
  /\ generated_addresses_lock[sup[t].pool] = 0
  /\ pushed < MaxPushed
  /\ generated_addresses' =
       [generated_addresses EXCEPT
          ![sup[t].pool] =
            push_back(@, GeneratedVanityAddress(sup[t].result[1],
                                                sup[t].current_count,
                                                pushed + 1))]
  /\ pushed' = pushed + 1
  /\ sup' = [sup EXCEPT ![t].pc = "while", ![t].result = None,
                        ![t].attempts = 0]
  /\ UNCHANGED <<search, confVars, generated_addresses_lock, lifeVars,
                 spawned, callVars, consVars, handed>>

\* the same push with the history of pushes left as it is (the entry gets the
\* history position 0), so that a behaviour may push without bound
sup_push_unrecorded(t) ==
  /\ sup[t].pc = "push"
  /\ generated_addresses_lock[sup[t].pool] = 0
  /\ generated_addresses' =
       [generated_addresses EXCEPT
          ![sup[t].pool] =
            push_back(@, GeneratedVanityAddress(sup[t].result[1],
                                                sup[t].current_count, 0))]
  /\ sup' = [sup EXCEPT ![t].pc = "while", ![t].result = None,
                        ![t].attempts = 0]
  /\ UNCHANGED <<search, confVars, generated_addresses_lock, pushed,
                 lifeVars, spawned, callVars, consVars, handed>>

sup_exit_no_store(t) ==
  /\ sup[t].pc \in {"exit", "break"}
  /\ sup' = [sup EXCEPT ![t].pc = "dead"]
  /\ UNCHANGED <<search, confVars, poolVars, lifeVars, spawned, callVars, consVars,
                 handed>>

\* line 186: is_generating.store(false), the thread's last statement, reached
\* when the loop test failed ("exit") or by the break of line 140 ("break")
sup_exit(t) ==
  /\ sup[t].pc \in {"exit", "break"}
  /\ is_generating' = [is_generating EXCEPT ![sup[t].pool] = FALSE]
  /\ sup' = [sup EXCEPT ![t].pc = "dead"]
  /\ UNCHANGED <<search, confVars, poolVars, generation_thread,
                 generation_thread_lock, spawned, callVars, consVars, handed>>

(* ---------------------------- the consumers ----------------------------- *)

get_blocking(c) ==
  /\ generated_addresses_lock[self] = 0
  /\ generated_addresses[self] # <<>>
  /\ LET r == pop_front(generated_addresses[self])
     IN  /\ generated_addresses' =
               [generated_addresses EXCEPT ![self] = r.rest]
         /\ ret' = [RetInit EXCEPT !.op = "get", !.got = r.result]
         /\ handed' = Append(handed, [to |-> c, entry |-> r.result[1]])
  /\ UNCHANGED <<confVars, generated_addresses_lock, pushed, lifeVars,
                 supVars, spawned, callVars>>

get_refilling(c) ==
  /\ generated_addresses_lock[self] = 0
  /\ LET r == pop_front(generated_addresses[self])
     IN  /\ generated_addresses' =
               [generated_addresses EXCEPT ![self] = r.rest]
         /\ ret' = [RetInit EXCEPT !.op = "get", !.got = r.result]
         /\ handed' = IF r.result = None THEN handed
                      ELSE Append(handed, [to |-> c, entry |-> r.result[1]])
         /\ is_generating' =
              [is_generating EXCEPT ![self] = @ \/ r.result = None]
  /\ UNCHANGED <<confVars, generated_addresses_lock, pushed,
                 generation_thread, generation_thread_lock, supVars,
                 spawned, callVars>>

\* get_generated_vanity_address, lines 216-229
get_generated_vanity_address(c) ==
  /\ generated_addresses_lock[self] = 0
  /\ LET r == pop_front(generated_addresses[self])
     IN  /\ generated_addresses' =
               [generated_addresses EXCEPT ![self] = r.rest]
         /\ ret' = [RetInit EXCEPT !.op = "get", !.got = r.result]
         /\ handed' = IF r.result = None THEN handed
                      ELSE Append(handed, [to |-> c, entry |-> r.result[1]])
  /\ UNCHANGED <<confVars, generated_addresses_lock, pushed, lifeVars,
                 supVars, spawned, callVars>>

\* the same acquire with the history of acquires left as it is
get_unrecorded(c) ==
  /\ generated_addresses_lock[self] = 0
  /\ LET r == pop_front(generated_addresses[self])
     IN  /\ generated_addresses' =
               [generated_addresses EXCEPT ![self] = r.rest]
         /\ ret' = [RetInit EXCEPT !.op = "get", !.got = r.result]
  /\ UNCHANGED <<confVars, generated_addresses_lock, pushed, lifeVars,
                 supVars, spawned, callVars, handed, flowVars>>

\* has_generated_addresses, lines 232-235
has_generated_addresses(c) ==
  /\ generated_addresses_lock[self] = 0
  /\ ret' = [RetInit EXCEPT !.op = "has",
                                 !.flag = (generated_addresses[self] # <<>>)]
  /\ UNCHANGED <<confVars, poolVars, lifeVars, supVars, spawned, callVars,
                 handed>>

\* generated_addresses_count, lines 238-241
generated_addresses_count(c) ==
  /\ generated_addresses_lock[self] = 0
  /\ ret' = [RetInit EXCEPT !.op = "count",
                                 !.count = Len(generated_addresses[self])]
  /\ UNCHANGED <<confVars, poolVars, lifeVars, supVars, spawned, callVars,
                 handed>>

\* is_generation_running, lines 244-246
is_generation_running(c) ==
  /\ ret' = [RetInit EXCEPT !.op = "running", !.flag = is_generating[self]]
  /\ UNCHANGED <<confVars, poolVars, lifeVars, supVars, spawned, callVars,
                 handed>>

\* is_vanity_enabled, lines 97-99
is_vanity_enabled(c) ==
  /\ ret' = [RetInit EXCEPT !.op = "enabled",
                                 !.flag = from_env_enabled(VANITY_ENABLED)]
  /\ UNCHANGED <<confVars, poolVars, lifeVars, supVars, spawned, callVars,
                 handed>>

(* ----------------------- the scripted consumer -------------------------- *)

\* A consumer that polls has_generated_addresses until it reports true,
\* acquires twice in a row and then reads is_generation_running.

NoSupervisorAlive == LiveSupervisors = {}

scen_poll ==
  /\ scen.pc = "poll"
  /\ has_generated_addresses(1)
  /\ scen' = [scen EXCEPT !.has_any = ret'.flag,
                          !.pc = IF ret'.flag THEN "first" ELSE "poll"]
  /\ UNCHANGED <<status, creation>>

scen_first ==
  /\ scen.pc = "first"
  /\ get_generated_vanity_address(1)
  /\ scen' = [scen EXCEPT !.first = ret'.got, !.pc = "second",
                          !.exited = NoSupervisorAlive]
  /\ UNCHANGED <<status, creation>>

scen_second ==
  /\ scen.pc = "second"
  /\ get_generated_vanity_address(1)
  /\ scen' = [scen EXCEPT !.second = ret'.got, !.pc = "running"]
  /\ UNCHANGED <<status, creation>>

scen_running ==
  /\ scen.pc = "running"
  /\ is_generation_running(1)
  /\ scen' = [scen EXCEPT !.is_running = ret'.flag, !.pc = "done"]
  /\ UNCHANGED <<status, creation>>

(* --------------------------- the status calls --------------------------- *)

\* A status call reads the pool once per component, each read being a call
\* of its own that takes and releases the pool lock. In the specifications
\* that use these actions the global pool, once set, is the pool self.

\* get_vanity_status, lines 92-94, entered: the pair (has, count)
get_vanity_status(c) ==
  /\ status.pc = "idle"
  /\ status' = [StatusInit EXCEPT !.pc = "has", !.op = "pair"]
  /\ UNCHANGED <<confVars, poolVars, lifeVars, supVars, spawned, callVars,
                 handed, ret, scen>>

\* get_global_vanity_status, lines 345-350, entered: without a global pool
\* it returns (false, 0, false) at once
get_global_vanity_status(c) ==
  /\ status.pc = "idle"
  /\ GLOBAL_VANITY_POOL \in {None, Some(self)}
  /\ status' = [StatusInit EXCEPT
                  !.pc = IF GLOBAL_VANITY_POOL = None THEN "idle" ELSE "has",
                  !.op = "triple"]
  /\ UNCHANGED <<confVars, poolVars, lifeVars, supVars, spawned, callVars,
                 handed, ret, scen>>

\* the first component: has_generated_addresses()
status_has(c) ==
  /\ status.pc = "has"
  /\ has_generated_addresses(c)
  /\ status' = [status EXCEPT !.has_generated = ret'.flag, !.pc = "count"]
  /\ UNCHANGED <<scen, creation>>

\* the second component: generated_addresses_count(); the pair is complete
status_count(c) ==
  /\ status.pc = "count"
  /\ generated_addresses_count(c)
  /\ status' = [status EXCEPT !.generated_count = ret'.count,
                              !.pc = IF status.op = "pair" THEN "idle"
                                                           ELSE "running"]
  /\ UNCHANGED <<scen, creation>>

\* the third component: is_generation_running(); the triple is complete
status_running(c) ==
  /\ status.pc = "running"
  /\ is_generation_running(c)
  /\ status' = [status EXCEPT !.is_generating = ret'.flag, !.pc = "idle"]
  /\ UNCHANGED <<scen, creation>>

\* a status call has returned: the values it read are its result
StatusReturned == status.pc = "idle" /\ status.op # "none"

(* ------------------------ the token-creation flow ----------------------- *)

\* handle_token_creation (parser.rs) and the head and the exits of
\* create_token (create_token.rs), as far as they touch the pool. The flow
\* runs once, after init_global_vanity_pool has returned (main.rs 17-34).

\* the ways create_token returns after its acquire: the errors of
\* get_balance, of the balance test, of the metadata upload and of
\* get_latest_blockhash, the dry run, and the two results of sending
Outcomes == {"balance_error", "insufficient_balance", "upload_error",
             "blockhash_error", "dry_run", "sent", "send_error"}

\* parser.rs 82-87: is_vanity_enabled is read through the global pool; the
\* caller passed --no-vanity or not
handle_token_creation(c, no_vanity) ==
  /\ creation.pc = "idle"
  /\ call[1].pc = "idle" /\ GLOBAL_VANITY_POOL = Some(self)
  /\ is_vanity_enabled(c)
  /\ creation' = [creation EXCEPT
                    !.is_vanity_enabled = ret'.flag,
                    !.pc = IF ~ no_vanity /\ ret'.flag
                           THEN "check" ELSE "create"]
  /\ UNCHANGED <<scen, status>>

\* parser.rs 89: get_vanity_status() is called
wait_check_call(c) ==
  /\ creation.pc = "check"
  /\ get_vanity_status(c)
  /\ creation' = [creation EXCEPT !.pc = "checking"]

\* parser.rs 92-117: with has_vanity_in_pool false the loop is entered
wait_check(c) ==
  /\ creation.pc = "checking"
  /\ StatusReturned
  /\ creation' = [creation EXCEPT
                    !.pc = IF status.has_generated THEN "create" ELSE "loop",
                    !.waited = ~ status.has_generated]
  /\ UNCHANGED <<confVars, poolVars, lifeVars, supVars, spawned, callVars,
                 handed, ret, scen, status>>

\* parser.rs 98: get_global_vanity_status() is called
wait_poll(c) ==
  /\ creation.pc = "loop"
  /\ get_global_vanity_status(c)
  /\ creation' = [creation EXCEPT !.pc = "polling"]

wait_test_not_running(c) ==
  /\ creation.pc = "polling"
  /\ StatusReturned
  /\ creation' = [creation EXCEPT
                    !.pc = IF status.has_generated \/ ~ status.is_generating
                           THEN "create" ELSE "loop"]
  /\ UNCHANGED <<confVars, poolVars, lifeVars, supVars, spawned, callVars,
                 handed, ret, scen, status>>

\* parser.rs 100-113: break when has_generated, otherwise sleep and repeat
wait_test(c) ==
  /\ creation.pc = "polling"
  /\ StatusReturned
  /\ creation' = [creation EXCEPT
                    !.pc = IF status.has_generated THEN "create" ELSE "loop"]
  /\ UNCHANGED <<confVars, poolVars, lifeVars, supVars, spawned, callVars,
                 handed, ret, scen, status>>

\* create_token.rs 152-166: the entry is acquired from the global pool, or a
\* fresh keypair is generated when the pool has none
create_token_acquire(c) ==
  /\ creation.pc = "create"
  /\ GLOBAL_VANITY_POOL = Some(self)
  /\ get_generated_vanity_address(c)
  /\ \E mint \in Keypair :
       creation' = [creation EXCEPT
                      !.generated_vanity = ret'.got,
                      !.mint_keypair = IF ret'.got = None
                                       THEN Some(mint) ELSE None,
                      !.len_before = Len(generated_addresses[self]),
                      !.pc = "sending"]
  /\ UNCHANGED <<scen, status>>

create_token_requeue(c, outcome) ==
  /\ creation.pc = "sending"
  /\ generated_addresses_lock[self] = 0
  /\ generated_addresses' =
       IF creation.generated_vanity = None \/ outcome = "sent"
       THEN generated_addresses
       ELSE [generated_addresses EXCEPT
               ![self] = push_back(@, creation.generated_vanity[1])]
  /\ creation' = [creation EXCEPT
                    !.pc = "done", !.outcome = outcome,
                    !.len_after = Len(generated_addresses'[self])]
  /\ UNCHANGED <<confVars, generated_addresses_lock, pushed, lifeVars,
                 supVars, spawned, callVars, handed, ret, scen, status>>

\* create_token.rs 173-288: the call returns in one of Outcomes; the entry
\* it acquired is dropped with the call's locals
create_token_return(c, outcome) ==
  /\ creation.pc = "sending"
  /\ creation' = [creation EXCEPT
                    !.pc = "done", !.outcome = outcome,
                    !.len_after = Len(generated_addresses[self])]
  /\ UNCHANGED <<confVars, poolVars, lifeVars, supVars, spawned, callVars,
                 handed, ret, scen, status>>

(* ------------------------- the specifications --------------------------- *)

Lifecycle(c) ==
  \/ start_check(c) \/ start_store(c) \/ start_spawn(c) \/ start_handle(c)
  \/ stop_check(c) \/ stop_store(c) \/ stop_take(c) \/ stop_join(c)

Start(c) ==
  \/ start_check(c) \/ start_store(c) \/ start_spawn(c) \/ start_handle(c)

Supervisor(t) ==
  \/ sup_while(t) \/ sup_len(t) \/ sup_round(t) \/ sup_push(t) \/ sup_exit(t)

Query(c) ==
  \/ has_generated_addresses(c) \/ generated_addresses_count(c)
  \/ is_generation_running(c)

Acquire(c) == get_generated_vanity_address(c) /\ UNCHANGED flowVars

Status(c) == Query(c) /\ UNCHANGED flowVars

\* concurrent lifecycle callers, the supervisors they spawn, one consumer
Next ==
  \/ \E c \in Callers : Lifecycle(c)
  \/ \E t \in Threads : Supervisor(t)
  \/ Acquire(1)

Spec == Init /\ [][Next]_vars

\* one caller issuing start and stop one after the other, the supervisors,
\* one consumer
NextSeq ==
  \/ Lifecycle(1)
  \/ \E t \in Threads : Supervisor(t)
  \/ Acquire(1)

SpecSeq == Init /\ [][NextSeq]_vars

\* the pool between its producer and its consumers: one start call, the
\* supervisor, any consumer acquiring and querying
NextPool ==
  \/ begun = 0 /\ start_check(1)
  \/ start_store(1) \/ start_spawn(1) \/ start_handle(1)
  \/ \E t \in Threads : Supervisor(t)
  \/ \E c \in Consumers : Acquire(c) \/ Status(c)

SpecPool == Init /\ [][NextPool]_vars

\* one start call, every search round run worker by worker, one consumer
Search(t) ==
  \/ find_begin(t) \/ find_while(t) \/ batch_end(t) \/ find_return(t)
  \/ \E x \in Workers :
       iter_check(t, x) \/ iter_gen(t, x) \/ iter_found(t, x)
         \/ iter_result(t, x)

SupervisorSearch(t) ==
  \/ sup_while(t) \/ sup_len(t) \/ Search(t) \/ sup_push(t) \/ sup_exit(t)

NextSearch ==
  \/ begun = 0 /\ start_check(1)
  \/ start_store(1) \/ start_spawn(1) \/ start_handle(1)
  \/ \E t \in Threads : SupervisorSearch(t)
  \/ Acquire(1)

SpecSearch == Init /\ [][NextSearch]_vars

\* one caller issuing start calls only, no stop and no consumption; threads
\* are scheduled fairly: a supervisor that can take a step eventually takes
\* it (every search round ends), and a start call in progress completes
InitLive == Init /\ TARGET_VANITY_COUNT <= MaxPushed

NextLive ==
  \/ Start(1)
  \/ \E t \in Threads : Supervisor(t)

SpecLive ==
  /\ InitLive /\ [][NextLive]_vars
  /\ \A t \in Threads : WF_vars(Supervisor(t))
  /\ WF_vars(start_store(1) \/ start_spawn(1) \/ start_handle(1))

\* a target of 1, one start call, and the scripted consumer
InitTarget1 == InitState /\ TARGET_VANITY_COUNT = 1 /\ VANITY_ENABLED = None

NextTarget1 ==
  \/ begun = 0 /\ start_check(1)
  \/ start_store(1) \/ start_spawn(1) \/ start_handle(1)
  \/ \E t \in Threads : Supervisor(t)
  \/ scen_poll \/ scen_first \/ scen_second \/ scen_running

SpecTarget1 == InitTarget1 /\ [][NextTarget1]_vars

\* the program's use of the pool: the environment holds any value of
\* VANITY_ENABLED, one caller initialises the global pool and then starts
\* and stops it, a consumer acquires and reads is_vanity_enabled and
\* is_generation_running
InitEnv ==
  /\ InitState
  /\ TARGET_VANITY_COUNT \in 0..MaxTarget
  /\ VANITY_ENABLED \in EnvValues

NextEnv ==
  \/ init_check(1) \/ init_set(1)
  \/ (call[1].pc = "idle" => GLOBAL_VANITY_POOL # None) /\ Lifecycle(1)
  \/ \E t \in Threads : Supervisor(t)
  \/ GLOBAL_VANITY_POOL # None /\ Acquire(1)
  \/ GLOBAL_VANITY_POOL # None
       /\ (is_vanity_enabled(1) \/ is_generation_running(1))
       /\ UNCHANGED flowVars

SpecEnv == InitEnv /\ [][NextEnv]_vars

\* concurrent callers of init_global_vanity_pool, the supervisors of the
\* pools they construct and start, and readers of the global pool
NextGlobal ==
  \/ \E c \in Callers :
       \/ init_check(c)
       \/ call[c].pc = "init_start" /\ start_check(c)
       \/ start_store(c) \/ start_spawn(c) \/ start_handle(c)
       \/ init_set(c)
  \/ \E t \in Threads : Supervisor(t)
  \/ \E c \in Consumers : get_global_vanity_pool(c)

SpecGlobal == Init /\ [][NextGlobal]_vars

\* the configuration over the life of one pool: the environment holds any
\* value of VANITY_ENABLED and may change, the pool is started once, and
\* consumers read is_vanity_enabled
NextConf ==
  \/ \E v \in EnvValues : set_var(v)
  \/ begun = 0 /\ start_check(1)
  \/ start_store(1) \/ start_spawn(1) \/ start_handle(1)
  \/ \E t \in Threads : Supervisor(t)
  \/ \E c \in Consumers : is_vanity_enabled(c) /\ UNCHANGED flowVars

SpecConf == InitEnv /\ [][NextConf]_vars

\* stop against concurrent start and acquire calls, with a target of 1:
\* caller 1 starts and stops the pool, caller 2 makes start calls, a
\* consumer acquires as often as it likes. The pushes and acquires are not
\* recorded in the history, so their number is not bounded. Threads are
\* scheduled fairly: a supervisor that can take a step eventually takes it
\* (every search round ends), and so does a caller inside a call; nothing
\* obliges a caller to begin a call or the consumer to acquire.
SupervisorUnrecorded(t) ==
  \/ sup_while(t) \/ sup_len(t) \/ sup_round(t) \/ sup_push_unrecorded(t)
  \/ sup_exit(t)

InCall(c) ==
  \/ start_store(c) \/ start_spawn(c) \/ start_handle(c)
  \/ stop_store(c) \/ stop_take(c) \/ stop_join(c)

NextStop ==
  \/ start_check(1) \/ stop_check(1) \/ start_check(2)
  \/ \E c \in Callers : InCall(c)
  \/ \E t \in Threads : SupervisorUnrecorded(t)
  \/ get_unrecorded(1)

SpecStop ==
  /\ InitTarget1 /\ [][NextStop]_vars
  /\ \A t \in Threads : WF_vars(SupervisorUnrecorded(t))
  /\ \A c \in Callers : WF_vars(InCall(c))

\* the status calls against the pool at work: the program initialises the
\* global pool (main.rs 17-21), the supervisor fills it, one consumer
\* acquires, another makes status calls
GetStatus(c) ==
  \/ (get_vanity_status(c) \/ get_global_vanity_status(c))
       /\ UNCHANGED creation
  \/ status_has(c) \/ status_count(c) \/ status_running(c)

NextStatus ==
  \/ init_check(1)
  \/ call[1].pc = "init_start" /\ start_check(1)
  \/ start_store(1) \/ start_spawn(1) \/ start_handle(1)
  \/ init_set(1)
  \/ \E t \in Threads : Supervisor(t)
  \/ Acquire(1)
  \/ GetStatus(2)

SpecStatus == Init /\ [][NextStatus]_vars

\* the attempt counters: one start call and the supervisor with every
\* search round run worker by worker, nothing consumed
NextAttempts ==
  \/ begun = 0 /\ start_check(1)
  \/ start_store(1) \/ start_spawn(1) \/ start_handle(1)
  \/ \E t \in Threads : SupervisorSearch(t)

SpecAttempts == Init /\ [][NextAttempts]_vars

\* the program from its start: main initialises the global pool, then runs
\* the token-creation flow, which is the only consumer; the environment
\* holds any value of VANITY_ENABLED. Threads are scheduled fairly: a
\* supervisor that can take a step eventually takes it (every search round
\* ends), and so do main's init call and the flow, whose sleep ends.
InitMain ==
  /\ InitState
  /\ TARGET_VANITY_COUNT \in 0..MaxTarget
  /\ VANITY_ENABLED \in EnvValues

Main ==
  \/ begun = 0 /\ init_check(1)
  \/ call[1].pc = "init_start" /\ start_check(1)
  \/ start_store(1) \/ start_spawn(1) \/ start_handle(1)
  \/ init_set(1)

WaitLoop(c) ==
  \/ wait_check_call(c) \/ wait_check(c) \/ wait_poll(c) \/ wait_test(c)
  \/ status_has(c) \/ status_count(c) \/ status_running(c)

Creation(c) ==
  \/ \E no_vanity \in BOOLEAN : handle_token_creation(c, no_vanity)
  \/ WaitLoop(c)
  \/ create_token_acquire(c)
  \/ \E outcome \in Outcomes : create_token_return(c, outcome)

NextCreation ==
  \/ Main
  \/ \E t \in Threads : Supervisor(t)
  \/ Creation(1)

SpecCreation ==
  /\ InitMain /\ [][NextCreation]_vars
  /\ \A t \in Threads : WF_vars(Supervisor(t))
  /\ WF_vars(Main)
  /\ WF_vars(Creation(1))

\* the same program, VANITY_ENABLED being unset, with a second consumer
\* that acquires from the pool as often as it likes
NextDiscard ==
  \/ NextCreation
  \/ Acquire(2)

SpecDiscard == Init /\ [][NextDiscard]_vars

\* the life of the global pool with VANITY_ENABLED unset: init calls, start
\* and stop calls one after the other, the supervisors, a consumer
SpecRefill == Init /\ [][NextEnv]_vars

\* the labels of the entries: one start call, the supervisor, and a
\* consumer that acquires as often as it likes, the pushes and acquires not
\* being recorded in the history, so that their number is not bounded
NextLabels ==
  \/ begun = 0 /\ start_check(1)
  \/ start_store(1) \/ start_spawn(1) \/ start_handle(1)
  \/ \E t \in Threads : SupervisorUnrecorded(t)
  \/ get_unrecorded(1)

SpecLabels == Init /\ [][NextLabels]_vars

(* ------------------------------ claims ---------------------------------- *)

HandedIds == [i \in DOMAIN handed |-> handed[i].entry.id]
PoolIds == [i \in DOMAIN generated_addresses[self] |-> generated_addresses[self][i].id]

\* C1: the entries acquire returns come out in the order they were pushed
\* (the i-th entry handed out is the i-th entry pushed, and the pool holds
\* the following ones in order), and a status query never changes the pool.
C1_Fifo ==
  /\ [](HandedIds \o PoolIds = [i \in 1..pushed |-> i])
  /\ [][(\E c \in Consumers : Query(c))
          => generated_addresses'[self] = generated_addresses[self]]_vars

\* two entries were handed out in order and the last consumer call was a
\* status query
C1_Witness ==
  /\ Len(handed) >= 2
  /\ ret.op \in {"has", "count", "running"}

Occurrences(f, n) == Cardinality({i \in DOMAIN f : f[i] = n})

\* C2: every pushed entry is either in the pool or was returned to exactly
\* one caller: never both, never twice, never lost.
C2_ExactlyOnce ==
  \A n \in 1..pushed : Occurrences(PoolIds, n) + Occurrences(HandedIds, n) = 1

\* two consumers each received an entry
C2_Witness ==
  /\ \E i \in DOMAIN handed : handed[i].to = 1
  /\ \E i \in DOMAIN handed : handed[i].to = 2

\* C3: while no consumer has popped an entry, with start and stop called by
\* one caller one after the other, the pool never holds more than
\* TARGET_VANITY_COUNT entries; with a target of 0 nothing is ever pushed.
C3_TargetBound ==
  /\ handed = <<>> => Len(generated_addresses[self]) <= TARGET_VANITY_COUNT
  /\ TARGET_VANITY_COUNT = 0 => pushed = 0

\* the pool was filled to a target of 2 and the supervisor has ended
C3_Witness ==
  /\ TARGET_VANITY_COUNT = 2
  /\ Len(generated_addresses[self]) = 2
  /\ handed = <<>>
  /\ \E t \in Threads : sup[t].pc = "dead"

\* the caller's last two calls were both start, and it has begun no other
TwoStartsInARow ==
  /\ call[1].pc = "idle"
  /\ Len(hist) >= 2
  /\ hist[Len(hist)].op = "start"
  /\ hist[Len(hist) - 1].op = "start"

\* C5 as stated: after two start calls in a row exactly one supervisor
\* thread is running.
C5_ExactlyOneRunning ==
  TwoStartsInARow => Cardinality(LiveSupervisors) = 1

\* C5 as amended: after two start calls in a row at most one supervisor
\* thread is alive, and exactly one as long as is_generating is true; both
\* calls returned Ok; no entry is in the pool twice and, absent consumption,
\* the pool holds no more than one start would have produced.
C5_IdempotentStart ==
  TwoStartsInARow =>
    /\ Cardinality(LiveSupervisors) <= 1
    /\ is_generating[self] => Cardinality(LiveSupervisors) = 1
    /\ hist[Len(hist)].res = "Ok" /\ hist[Len(hist) - 1].res = "Ok"
    /\ \A i, j \in DOMAIN PoolIds : PoolIds[i] = PoolIds[j] => i = j
    /\ handed = <<>> => Len(generated_addresses[self]) <= TARGET_VANITY_COUNT

\* the second start found the supervisor running and spawned nothing
C5_Witness ==
  /\ TwoStartsInARow
  /\ spawned = 1
  /\ Cardinality(LiveSupervisors) = 1
  /\ generated_addresses[self] # <<>>

\* C6: at most one supervisor thread is alive, whatever the interleaving of
\* start and stop calls of concurrent callers.
C6_AtMostOneSupervisor == Cardinality(LiveSupervisors) <= 1

\* C7: after a stop call has returned and until a later start call begins,
\* is_generating is false and nothing is pushed to the pool.
C7_QuiescenceAfterStop ==
  /\ [](quiet => ~ is_generating[self])
  /\ [][quiet => pushed' = pushed]_vars

\* C4: without a stop request and without consumption, under fair
\* scheduling, a running supervisor eventually ends by itself with the pool
\* at the target and is_generating false, and is_generating then becomes
\* true again only by the store of a later start call.
C4_SelfTermination ==
  /\ \A t \in Threads :
       Alive(t) ~> /\ sup[t].pc = "dead"
                   /\ ~ is_generating[self]
                   /\ Len(generated_addresses[self]) >= TARGET_VANITY_COUNT
  /\ [][~ is_generating[self] /\ is_generating'[self] => start_store(1)]_vars

\* a supervisor filled the pool to a target of 2 and ended by itself
C4_Witness ==
  /\ TARGET_VANITY_COUNT = 2
  /\ Len(generated_addresses[self]) = 2
  /\ sup[1].pc = "dead"
  /\ ~ is_generating[self]

\* the address ends with the four characters of "pump"
HasSuffix(address) ==
  /\ Len(address) >= 4
  /\ address[Len(address) - 3] = "p"
  /\ address[Len(address) - 2] = "u"
  /\ address[Len(address) - 1] = "m"
  /\ address[Len(address)] = "p"

\* C8 as stated: with a target of 1, once the poll has reported has_any,
\* the first acquire returns a matching entry, the second returns nothing
\* and is_generation_running is then false.
C8_Target1Scenario ==
  scen.pc = "done" =>
    /\ scen.first # None /\ HasSuffix(scen.first[1].address)
    /\ scen.second = None
    /\ ~ scen.is_running

\* C8 as amended: the first acquire returns a matching entry; the second
\* returns nothing and is_generation_running is false when the supervisor
\* had already ended at the time of the first acquire.
C8_Target1Amended ==
  scen.pc = "done" =>
    /\ scen.first # None /\ HasSuffix(scen.first[1].address)
    /\ scen.exited => scen.second = None /\ ~ scen.is_running

\* the scenario ran to its end after the supervisor had ended by itself
C8_Witness ==
  /\ scen.pc = "done"
  /\ scen.exited
  /\ scen.first # None
  /\ pushed = 1

\* C9: while the enablement flag is off, no supervisor is ever spawned,
\* is_generating stays false and is_generation_running never reports true.
C9_DisabledStaysIdle ==
  ~ from_env_enabled(VANITY_ENABLED) =>
    /\ spawned = 0
    /\ ~ is_generating[self]
    /\ ret.op = "running" => ~ ret.flag

\* C10: every entry in the pool and every entry acquire has returned has
\* an address that ends with the suffix and is the address of its keypair,
\* for every interleaving of the workers of a search.
C10_SuffixInvariant ==
  /\ \A i \in DOMAIN generated_addresses[self] :
       /\ HasSuffix(generated_addresses[self][i].address)
       /\ generated_addresses[self][i].address
            = pubkey_to_string(generated_addresses[self][i].keypair)
  /\ \A i \in DOMAIN handed : HasSuffix(handed[i].entry.address)
  /\ ret.got # None => HasSuffix(ret.got[1].address)

\* an entry was acquired, and in the search in progress a worker is about to
\* overwrite the result slot, which holds the match of another worker
C10_Witness ==
  /\ handed # <<>>
  /\ \E t \in Threads, x \in Workers :
       /\ search[t].w[x].pc = "result"
       /\ search[t].result # None
       /\ search[t].result # search[t].w[x].keypair

\* C11: an acquire is always possible at once, whatever the supervisor is
\* doing; on an empty pool it returns None and leaves the pool and
\* is_generating as they were, on a non-empty pool it returns the front entry
\* and the pool is shorter by exactly one.
C11_EmptyAcquireIsValue ==
  /\ [](\A c \in Consumers : ENABLED get_generated_vanity_address(c))
  /\ [][\A c \in Consumers : get_generated_vanity_address(c) =>
          /\ is_generating'[self] = is_generating[self]
          /\ IF generated_addresses[self] = <<>>
             THEN ret'.got = None /\ generated_addresses'[self] = <<>>
             ELSE /\ ret'.got = Some(Head(generated_addresses[self]))
                  /\ Len(generated_addresses'[self]) = Len(generated_addresses[self]) - 1]_vars

\* an acquire returned None while the supervisor was in a search round,
\* after an earlier acquire had returned an entry
C11_Witness ==
  /\ ret.op = "get" /\ ret.got = None
  /\ handed # <<>>
  /\ is_generating[self]
  /\ \E t \in Threads : sup[t].pc = "search"

\* the caller has made exactly the calls start, start, stop, one after the
\* other, and the stop has returned
StartStartStop ==
  /\ call[1].pc = "idle"
  /\ Len(hist) = 3
  /\ hist[1].op = "start" /\ hist[2].op = "start" /\ hist[3].op = "stop"

\* C12: when the stop of the sequence start; start; stop returns, no
\* supervisor thread is alive, whether the first supervisor was still running
\* or had ended by itself before the second start or before the stop.
C12_NoOrphanAfterStartStartStop ==
  StartStartStop => LiveSupervisors = {}

\* the first supervisor ended by itself, the second start spawned a second
\* one, and the stop took its handle and joined it
C12_Witness ==
  /\ StartStartStop
  /\ spawned = 2
  /\ generation_thread[self] = None
  /\ sup[1].pc = "dead" /\ sup[2].pc = "dead"

\* no start, stop or init call is in progress
NoCallInProgress == \A c \in Callers : call[c].pc = "idle"

\* C13 as stated: while no lifecycle call is in progress, the stored thread
\* handle is present if and only if is_generating is true.
C13_HandleIffGenerating ==
  NoCallInProgress => (generation_thread[self] # None <=> is_generating[self])

\* C13 as amended: with start and stop called by one caller one after the
\* other, while no lifecycle call is in progress, is_generating true
\* implies that the handle is present and is the handle of a live supervisor;
\* a handle that is present while is_generating is false is the handle of a
\* supervisor that has ended.
C13_HandleWhenGenerating ==
  NoCallInProgress =>
    /\ is_generating[self] =>
         generation_thread[self] # None /\ Alive(generation_thread[self][1])
    /\ (generation_thread[self] # None /\ ~ is_generating[self]) =>
         sup[generation_thread[self][1]].pc = "dead"

\* the supervisor ended by itself at the target: its handle is still stored
\* while is_generating is false
C13_Witness ==
  /\ NoCallInProgress
  /\ generation_thread[self] # None
  /\ ~ is_generating[self]
  /\ sup[generation_thread[self][1]].pc = "dead"
  /\ TARGET_VANITY_COUNT > 0
  /\ Len(generated_addresses[self]) = TARGET_VANITY_COUNT

\* the pools for which a supervisor thread was spawned
StartedPools == {sup[t].pool : t \in {u \in Threads : sup[u].pc # "unborn"}}

\* C14: whatever the interleaving of concurrent init_global_vanity_pool
\* calls, a supervisor is started for at most one pool, a live supervisor
\* belongs to the pool stored in GLOBAL_VANITY_POOL once one is stored, and
\* a pool returned by get_global_vanity_pool is the stored one.
C14_SingleEngine ==
  /\ Cardinality(StartedPools) <= 1
  /\ GLOBAL_VANITY_POOL # None =>
       \A t \in Threads : Alive(t) => sup[t].pool = GLOBAL_VANITY_POOL[1]
  /\ (ret.op = "global" /\ ret.got # None) => ret.got = GLOBAL_VANITY_POOL

\* C15: is_vanity_enabled returns the same value on every call, whatever
\* happens to the environment variable and to is_generating between two
\* calls.
C15_ConfigReadOnce ==
  [][(ret.op = "enabled" /\ ret'.op = "enabled") => ret'.flag = ret.flag]_vars

\* the text is one of the two boolean words, in any letter case
IsBooleanText(text) ==
  to_lowercase(text) \in {<<"t", "r", "u", "e">>, <<"f", "a", "l", "s", "e">>}

\* C16: when VANITY_ENABLED is absent from the environment, or holds a text
\* that is not a boolean, no supervisor is ever spawned and is_generating
\* stays false.
C16_AbsentOrInvalidDisables ==
  (VANITY_ENABLED = None \/ ~ IsBooleanText(VANITY_ENABLED[1])) =>
    /\ spawned = 0
    /\ \A p \in Pools : ~ is_generating[p]

\* C17: the search returns only Ok and only with a match: when its outer
\* loop has seen the found flag true, the result slot holds a keypair whose
\* address ends with the suffix, so the expect never panics, whatever the
\* interleaving of the workers.
C17_SearchNeverFails ==
  \A t \in Threads :
    /\ sup[t].pc # "panicked"
    /\ search[t].pc = "take" =>
         /\ search[t].found
         /\ search[t].result # None
         /\ ends_with(pubkey_to_string(search[t].result[1]), VANITY_SUFFIX)
    /\ sup[t].pc = "push" =>
         /\ sup[t].result # None
         /\ ends_with(pubkey_to_string(sup[t].result[1]), VANITY_SUFFIX)

\* in a supervisor's second round the search left its loop after more than
\* one batch
C17_Witness ==
  \E t \in Threads :
    /\ search[t].pc = "take"
    /\ search[t].attempts > BatchSize
    /\ sup[t].total_attempts > 0

\* C18: once a stop has stored false to is_generating (and until a start
\* stores true again) no supervisor passes the test at the head of its loop
\* into a new round, at most one entry is pushed, and nothing is pushed
\* after that stop has returned.
C18_RoundGranularCancellation ==
  /\ [](cleared.by # 0 => pushed - cleared.at <= 1)
  /\ [][cleared.by # 0 =>
          \A t \in Threads : ~ (sup[t].pc = "while" /\ sup'[t].pc = "len")]_vars
  /\ [][(cleared.by # 0 /\ cleared.returned) => pushed' = pushed]_vars

\* C19: under fair scheduling every stop call that has begun eventually
\* returns, whatever start and acquire calls run at the same time.
C19_StopTerminates ==
  \A c \in Callers : (call[c].op = "stop") ~> (call[c].op # "stop")

\* the lifecycle state a supervisor thread is in
SupState(t) ==
  CASE sup[t].pc \in {"unborn", "dead", "panicked"} -> "Idle"
    [] sup[t].pc = "break" -> "TargetReached"
    [] sup[t].pc = "exit" -> "Stopped"
    [] OTHER -> "Running"

\* the lifecycle state of the pool: that of its live supervisor, Idle when
\* there is none
LifecycleState ==
  IF LiveSupervisors = {} THEN "Idle"
  ELSE SupState(CHOOSE t \in LiveSupervisors : TRUE)

\* a change of lifecycle state from a to b is one of the transitions of the
\* state machine, taken under its condition
Transition(a, b) ==
  \/ /\ a = "Idle" /\ b = "Running"
     /\ \E c \in Callers : start_spawn(c)
     /\ sup[spawned + 1].pc = "unborn"
     /\ generated_addresses' = generated_addresses
  \/ /\ a = "Running" /\ b = "TargetReached"
     /\ Len(generated_addresses[self]) >= TARGET_VANITY_COUNT
  \/ /\ a = "Running" /\ b = "Stopped"
     /\ ~ is_generating[self]
  \/ /\ a \in {"TargetReached", "Stopped"} /\ b = "Idle"
     /\ ~ is_generating'[self]

\* C20: with start and stop called one after the other, the lifecycle of
\* the pool, and of each supervisor thread, changes state only by Idle ->
\* Running (the spawn of a start, of a thread that never ran before, the
\* pool keeping its entries), Running -> TargetReached (pool length >=
\* target), Running -> Stopped (is_generating false) and TargetReached or
\* Stopped -> Idle (is_generating false afterwards); a thread that has
\* ended never runs again.
C20_SupervisorStateMachine ==
  [][/\ LifecycleState' # LifecycleState
          => Transition(LifecycleState, LifecycleState')
     /\ \A t \in Threads :
          /\ SupState(t)' # SupState(t) => Transition(SupState(t), SupState(t)')
          /\ sup[t].pc = "dead" => sup'[t].pc = "dead"]_vars

\* after a stop, a later start has spawned a second supervisor, which runs
\* on the pool that still holds an entry pushed by the first
C20_Witness ==
  /\ spawned = 2
  /\ sup[1].pc = "dead"
  /\ SupState(2) = "Running"
  /\ \E i \in DOMAIN hist : hist[i].op = "stop"
  /\ generated_addresses[self] # <<>>

\* a search round of supervisor t is in progress
InRound(t) == sup[t].pc \in {"search", "searching"}

\* C21: no supervisor holds the lock of the pool while its search round is
\* in progress, and in every state, in particular during a round, each of
\* get_generated_vanity_address, has_generated_addresses and
\* generated_addresses_count can complete.
C21_ConsumersNeverWaitForRound ==
  /\ \A t \in Threads :
       InRound(t) => generated_addresses_lock[sup[t].pool] # t
  /\ \A c \in Consumers :
       /\ ENABLED get_generated_vanity_address(c)
       /\ ENABLED has_generated_addresses(c)
       /\ ENABLED generated_addresses_count(c)

\* a consumer read the count of a pool that holds an entry while the
\* supervisor was in a later search round
C21_Witness ==
  /\ \E t \in Threads : InRound(t)
  /\ ret.op = "count" /\ ret.count = 1
  /\ Len(generated_addresses[self]) = 1

\* C22: every pair returned by get_vanity_status and every triple returned
\* by get_global_vanity_status has has_any = (count > 0), whatever pushes
\* and pops interleave with the call.
C22_StatusConsistentSnapshot ==
  StatusReturned => (status.has_generated = (status.generated_count > 0))

\* C23: when the search leaves its loop, the keypair it is about to return
\* is the match of the worker that first set the found flag.
C23_ReturnsFirstMatch ==
  \A t \in Threads :
    search[t].pc = "take" => search[t].result = search[t].first

\* the workers of search t that passed the found test and have not yet
\* generated their candidate
Generating(t) == {x \in Workers : search[t].w[x].pc = "gen"}

\* an iteration of search t is taken and tests the flag in this step
IterationChecks(t) == search'[t].left = search[t].left - 1

\* C24: once found is set, an iteration that tests the flag generates no
\* candidate (no worker goes on to generate) and leaves the attempt counter
\* as it is; the only workers that still generate are those that had passed
\* the test when the flag was set, at most one per other worker, each of
\* them once (a candidate is generated only by a worker leaving that set,
\* and no worker joins it); and no further batch is started.
C24_EarlyExit ==
  /\ [](\A t \in Threads :
          search[t].found =>
            Cardinality(Generating(t)) <= NumWorkers - 1)
  /\ [][\A t \in Threads :
          search[t].found =>
            /\ IterationChecks(t) =>
                 /\ search'[t].attempts = search[t].attempts
                 /\ Generating(t)' = Generating(t)
            /\ Generating(t)' \subseteq Generating(t)
            /\ search'[t].attempts > search[t].attempts =>
                 /\ search'[t].attempts = search[t].attempts + 1
                 /\ Cardinality(Generating(t)')
                      = Cardinality(Generating(t)) - 1
            /\ search'[t].pc = "batch" =>
                 /\ search[t].pc = "batch"
                 /\ search'[t].left <= search[t].left]_vars

\* in the first batch of a search one iteration generated the match and
\* every other iteration of the batch tested the flag after it was set
C24_Witness ==
  \E t \in Threads :
    /\ search[t].pc = "batch" /\ search[t].left = 0
    /\ search[t].found
    /\ search[t].attempts = 1
    /\ \A x \in Workers : search[t].w[x].pc = "idle"

\* the search of thread t returns to the supervisor in this step
FindReturns(t) == search[t].pc = "take" /\ search'[t].pc = "none"

\* C25: the attempts a search is about to return equal the number of
\* candidates it generated, are at least 1 and at most BatchSize (100000 in
\* the program) times the number of batches it ran; a supervisor's
\* total_attempts grows by the attempts of each search that returns to it
\* and changes at no other step, so that it is the sum of the attempts of
\* the completed searches and never decreases.
C25_AttemptAccounting ==
  /\ [](\A t \in Threads :
          search[t].pc = "take" =>
            /\ search[t].attempts = search[t].generated
            /\ search[t].attempts >= 1
            /\ search[t].attempts <= BatchSize * search[t].batches)
  /\ [][\A t \in Threads :
          /\ sup'[t].total_attempts >= sup[t].total_attempts
          /\ sup'[t].total_attempts =
               IF FindReturns(t)
               THEN sup[t].total_attempts + search[t].attempts
               ELSE sup[t].total_attempts]_vars

\* a supervisor's second search has returned after more than one batch and
\* its attempts were added to those of the first
C25_Witness ==
  \E t \in Threads :
    /\ sup[t].pc = "push"
    /\ sup[t].attempts > BatchSize
    /\ sup[t].total_attempts > sup[t].attempts

\* the flow is in its wait loop
InWaitLoop == creation.pc \in {"loop", "polling"}

\* the flow has acquired from the pool
Acquired == creation.pc \in {"sending", "done"}

\* C26: the wait loop is left only on a status that reported has_generated,
\* and no step of the loop changes the pool; when the target is at least 1
\* the loop is eventually left and the acquire that follows returns an
\* entry; when the pool is empty with no supervisor alive the loop is never
\* left.
C26_WaitLoop ==
  /\ [][InWaitLoop /\ (creation' # creation \/ status' # status) =>
          /\ UNCHANGED <<generated_addresses, handed>>
          /\ ~ InWaitLoop' => status.has_generated]_vars
  /\ [](InWaitLoop /\ TARGET_VANITY_COUNT >= 1 =>
          <>(Acquired /\ creation.generated_vanity # None))
  /\ [](InWaitLoop /\ generated_addresses[self] = <<>> /\ NoSupervisorAlive
          => [] InWaitLoop)

\* the flow waited in its loop and then acquired an entry
C26_Witness ==
  /\ creation.waited
  /\ Acquired
  /\ creation.generated_vanity # None

\* the entry create_token acquired is neither in the pool nor handed out a
\* second time
NotBackInPool ==
  creation.generated_vanity # None =>
    /\ \A i \in DOMAIN generated_addresses[self] :
         generated_addresses[self][i].id # creation.generated_vanity[1].id
    /\ Occurrences(HandedIds, creation.generated_vanity[1].id) = 1

\* C27: when create_token has returned after acquiring an entry, the entry
\* is not back in the pool and was not handed out again, and the pool
\* length at the return is the length before the acquire minus one.
C27_LengthMinusOne ==
  creation.pc = "done" /\ creation.generated_vanity # None =>
    /\ NotBackInPool
    /\ creation.len_after = creation.len_before - 1

\* C27, amended: the acquire of create_token removes exactly the entry at the
\* head of the pool, no later step of the call changes the pool, whatever
\* the outcome, and the entry is never in the pool again nor handed out a
\* second time.
C27_AcquiredNeverReturned ==
  /\ [] NotBackInPool
  /\ [][creation' # creation =>
          /\ creation.pc = "create" /\ generated_addresses[self] # <<>> =>
               /\ generated_addresses'[self] = Tail(generated_addresses[self])
               /\ creation'.generated_vanity
                    = Some(Head(generated_addresses[self]))
          /\ creation.pc = "sending" => UNCHANGED generated_addresses]_vars

\* create_token failed after acquiring an entry, and the second consumer
\* acquired an entry after that
C27_Witness ==
  /\ creation.pc = "done"
  /\ creation.outcome = "send_error"
  /\ creation.generated_vanity # None
  /\ ret.op = "get" /\ ret.got # None /\ ret.got # creation.generated_vanity
  /\ Len(handed) = 2 /\ handed[1].to = 1 /\ handed[2].to = 2

\* a supervisor was spawned, none is alive, and no start call is in progress
SupervisorExited ==
  /\ spawned > 0
  /\ NoSupervisorAlive
  /\ \A c \in Callers : ~ StartInProgress(c)

\* C28: while the supervisor has exited and no start has begun, an acquire
\* leaves is_generating and the supervisor threads as they are and spawns
\* nothing, on an empty pool it returns None, and no step makes the pool
\* longer.
C28_NoRefillAfterExit ==
  [][SupervisorExited =>
       /\ (\E c \in Consumers : get_generated_vanity_address(c)) =>
            /\ SupervisorExited'
            /\ UNCHANGED <<is_generating, spawned, sup>>
            /\ generated_addresses[self] = <<>> =>
                 /\ ret'.got = None
                 /\ generated_addresses'[self] = <<>>
       /\ SupervisorExited' =>
            Len(generated_addresses'[self]) <= Len(generated_addresses[self])
    ]_vars

\* after the supervisor exited at the target the consumer drained the pool
\* and its last acquire returned None
C28_Witness ==
  /\ SupervisorExited
  /\ ~ is_generating[self]
  /\ Len(handed) = pushed /\ pushed >= 1
  /\ generated_addresses[self] = <<>>
  /\ ret.op = "get" /\ ret.got = None

\* C29: the entries that are in the pool at the same time have pairwise
\* distinct labels (seed).
C29_DistinctLabels ==
  \A i, j \in DOMAIN generated_addresses[self] :
    i # j => generated_addresses[self][i].seed
               # generated_addresses[self][j].seed

====
